---- MODULE Spec2Model ----
(***************************************************************************)
(* Model of the aster_dex program (src/Solanaaster_dex.rs): one market,    *)
(* its vault, the traders' token accounts and the Position accounts.       *)
(*                                                                         *)
(* Every instruction is one atomic action: Anchor's account validation     *)
(* (the #[derive(Accounts)] constraints), then the handler, and nothing is *)
(* kept of an instruction that returns an error or panics.                 *)
(*                                                                         *)
(* Machine integers are modelled with their wrap-around, on words of       *)
(* WordBits bits in place of 64 (TLC's integers are 32 bits wide): u64 is  *)
(* 0 .. 2^WordBits - 1 and i64 is -2^(WordBits-1) .. 2^(WordBits-1) - 1.   *)
(* `as` casts wrap in every build.  +, -, * panic on overflow in a build   *)
(* with overflow-checks and wrap in a build without; the build is chosen   *)
(* once, in Init (overflow_checks).  Program-derived addresses (market,    *)
(* vault, position seeds and bumps) are taken to verify.                   *)
(***************************************************************************)
EXTENDS Integers, FiniteSets, Sequences, TLC

\* ------------------------------------------------------------ bounds
WordBits == 28
MaxTime == 1

\* ------------------------------------------------- program constants
BPS == 10000
FEE_BPS == 10
PERCENT == 100
REWARD_PERCENT == 3
MAX_LEVERAGE_CAP == 100
THRESHOLD_CAP == 100

\* ------------------------------------------------------------ inputs
Keys == {"k1", "k2"}
Feeds == {"f1", "f2"}
\* The signer and the price feed of initialize_market
Admins == {"k1"}
Oracles == {"f1"}
U64 == 2 ^ WordBits
I64_MAX == 2 ^ (WordBits - 1) - 1
I64_MIN == -(2 ^ (WordBits - 1))
Huge == 2 ^ (WordBits - 1) + 1
Large == 2 ^ (WordBits - 4)
PositionIds == {1, 2}
Times == 0 .. MaxTime

None == {}
Some(v) == {v}
IsSome(o) == o # {}
Unwrap(o) == CHOOSE v \in o : TRUE

\* initialize_market's parameters
Scenario == [min_collateral |-> 1000, max_leverage |-> 10, liquidation_threshold |-> 20]
Unvalidated == [min_collateral |-> 0, max_leverage |-> 0, liquidation_threshold |-> 100]

\* update_market's arguments
Update(min_col, max_lev, liq_threshold, active) ==
    [min_collateral |-> min_col, max_leverage |-> max_lev,
     liquidation_threshold |-> liq_threshold, is_active |-> active]
Deactivate == Update(None, None, None, Some(FALSE))
Activate == Update(None, None, None, Some(TRUE))
LowerLeverage == Update(None, Some(4), None, None)
NoMinimum == Update(Some(0), None, None, None)
BadLeverage == Update(Some(500), Some(0), None, None)
BadThreshold == Update(None, Some(5), Some(100), None)
BadBoth == Update(None, Some(101), Some(0), Some(FALSE))

\* open_position's arguments
Order(long, collateral, lev) ==
    [is_long |-> long, collateral_amount |-> collateral, leverage |-> lev]

FundingIndexes == {7}

\* The instructions the clients submit, per specification
MainEnv ==
    [ids |-> {1},
     params |-> {Scenario, Unvalidated},
     updates |-> {Deactivate, Activate, LowerLeverage, NoMinimum, BadLeverage,
                  BadThreshold, BadBoth},
     orders |-> {Order(TRUE, 1000, 5), Order(FALSE, 1000, 5), Order(TRUE, 0, 1),
                 Order(TRUE, Huge, 4), Order(TRUE, 1000, 0), Order(FALSE, 1000, 11),
                 Order(TRUE, Large, 1)},
     prices |-> {0, 75, 100, 110}]

PoolEnv ==
    [ids |-> {1, 2},
     params |-> {Scenario},
     updates |-> {Deactivate, Activate},
     orders |-> {Order(TRUE, 1000, 5), Order(FALSE, 1000, 5)},
     prices |-> {100, 120}]

InitialWallet == [k \in Keys |-> IF k = "k1" THEN Huge + 1000 ELSE 2000]

VARIABLES scope, overflow_checks, market, positions, vault, wallet, price, now, history

vars == <<scope, overflow_checks, market, positions, vault, wallet, price, now, history>>

env == IF scope = "pool" THEN PoolEnv ELSE MainEnv

\* The accounts a client passes along with its own key: any price feed and any
\* token account or trader account in the main specification, the right ones in
\* the pool specification
PriceFeeds == IF scope = "pool" THEN {"f1"} ELSE Feeds
TokenOwners(user) == IF scope = "pool" THEN {user} ELSE Keys

\* ------------------------------------------------ machine arithmetic
Abs(x) == IF x < 0 THEN -x ELSE x

as_u64(x) == x % U64

as_i64(x) == LET u == x % U64 IN IF u > I64_MAX THEN u - U64 ELSE u

\* a * b modulo m for 0 <= a, b < m, without leaving TLC's integers
RECURSIVE MulMod(_, _, _)
MulMod(a, b, m) ==
    IF b = 0 THEN 0
    ELSE (((2 * MulMod(a, b \div 2, m)) % m) + (b % 2) * a) % m

wrapping_mul_u64(a, b) == MulMod(a, b, U64)
overflows_mul_u64(a, b) == a # 0 /\ b > (U64 - 1) \div a

wrapping_add_i64(a, b) == as_i64(a + b)
overflows_add_i64(a, b) == a + b > I64_MAX \/ a + b < I64_MIN

wrapping_sub_i64(a, b) == as_i64(a - b)
overflows_sub_i64(a, b) == a - b > I64_MAX \/ a - b < I64_MIN

wrapping_mul_i64(a, b) ==
    LET m == MulMod(Abs(a), Abs(b), U64)
    IN  as_i64(IF (a < 0) = (b < 0) THEN m ELSE -m)
overflows_mul_i64(a, b) ==
    /\ a # 0
    /\ b # 0
    /\ IF (a < 0) = (b < 0)
       THEN Abs(a) > I64_MAX \div Abs(b)
       ELSE Abs(a) > (-I64_MIN) \div Abs(b)

\* Rust's / on i64: truncates toward zero; the caller excludes b = 0
div_i64(a, b) ==
    LET q == Abs(a) \div Abs(b)
    IN  IF (a < 0) = (b < 0) THEN q ELSE -q
\* / panics in every build on a zero divisor and on i64::MIN / -1
panics_div_i64(a, b) == b = 0 \/ (a = I64_MIN /\ b = -1)

\* ------------------------------------------------------------- state
MarketIds == {"m1"}

\* An account that does not exist: its data is all zero
NoMarket ==
    [initialized |-> FALSE, admin |-> "none", oracle |-> "none", market_id |-> "none",
     min_collateral |-> 0, max_leverage |-> 0, liquidation_threshold |-> 0,
     is_active |-> FALSE, last_funding_index |-> 0, last_funding_time |-> 0]

NoPosition ==
    [status |-> "none", trader |-> "none", market_id |-> "none", collateral |-> 0,
     size |-> 0, is_long |-> FALSE, entry_price |-> 0, leverage |-> 0, open_time |-> 0,
     collateral_mint |-> "none", last_funding_index |-> 0]

\* The account of a position that was destroyed: the data is gone, how it ended is kept
Destroyed(how) == [NoPosition EXCEPT !.status = how]

NoEvent == [kind |-> "none"]

\* The accounts an instruction can write
St == [market |-> market, positions |-> positions, vault |-> vault, wallet |-> wallet]

Ok(s, ev) == [err |-> "Ok", st |-> s, event |-> ev]
Err(s, e) == [err |-> e, st |-> s, event |-> NoEvent]

\* An instruction that returns Err or panics is rolled back: no account it wrote
\* and no event it emitted is kept
NoRollback(s, r) == r
Instruction(s, r) == IF r.err = "Ok" THEN r ELSE Err(s, r.err)

\* ---------------------------------------------------- market registry
initialize_market(s, admin, price_feed, market_id, p) ==
    IF s.market.initialized THEN Err(s, "AccountInUse")
    ELSE Ok([s EXCEPT !.market =
                [initialized |-> TRUE, admin |-> admin, oracle |-> price_feed,
                 market_id |-> market_id,
                 min_collateral |-> p.min_collateral,
                 max_leverage |-> p.max_leverage,
                 liquidation_threshold |-> p.liquidation_threshold,
                 is_active |-> TRUE,
                 last_funding_index |-> 0, last_funding_time |-> 0]],
            NoEvent)

\* The UpdateMarket / UpdateFunding account constraint
AdminUnchecked(m, admin) == TRUE
AdminConstraint(m, admin) == m.admin = admin

ValidLeverage(max_lev) == max_lev >= 1 /\ max_lev <= MAX_LEVERAGE_CAP

ValidThreshold(t) == t > 0 /\ t < THRESHOLD_CAP

update_market_defaulting(s, a) ==
    Ok([s EXCEPT !.market.min_collateral =
            IF IsSome(a.min_collateral) THEN Unwrap(a.min_collateral) ELSE 0],
       NoEvent)
update_market_handler(s, a) ==
    LET m0 == s.market
        m1 == IF IsSome(a.min_collateral)
              THEN [m0 EXCEPT !.min_collateral = Unwrap(a.min_collateral)] ELSE m0
        m2 == IF IsSome(a.max_leverage)
              THEN [m1 EXCEPT !.max_leverage = Unwrap(a.max_leverage)] ELSE m1
        m3 == IF IsSome(a.liquidation_threshold)
              THEN [m2 EXCEPT !.liquidation_threshold = Unwrap(a.liquidation_threshold)] ELSE m2
        m4 == IF IsSome(a.is_active)
              THEN [m3 EXCEPT !.is_active = Unwrap(a.is_active)] ELSE m3
    IN  IF IsSome(a.max_leverage) /\ ~ValidLeverage(Unwrap(a.max_leverage))
        THEN Err([s EXCEPT !.market = m1], "InvalidLeverage")
        ELSE IF IsSome(a.liquidation_threshold)
                /\ ~ValidThreshold(Unwrap(a.liquidation_threshold))
        THEN Err([s EXCEPT !.market = m2], "InvalidLiquidationThreshold")
        ELSE Ok([s EXCEPT !.market = m4], NoEvent)

update_market(s, admin, a) ==
    IF ~s.market.initialized THEN Err(s, "AccountNotInitialized")
    ELSE IF ~AdminConstraint(s.market, admin) THEN Err(s, "Unauthorized")
    ELSE Instruction(s, update_market_handler(s, a))

update_funding(s, admin, new_funding_index, clock) ==
    IF ~s.market.initialized THEN Err(s, "AccountNotInitialized")
    ELSE IF ~AdminConstraint(s.market, admin) THEN Err(s, "Unauthorized")
    ELSE IF ~(s.market.admin = admin) THEN Err(s, "Unauthorized")
    ELSE Ok([s EXCEPT !.market.last_funding_index = new_funding_index,
                      !.market.last_funding_time = clock],
            NoEvent)

\* -------------------------------------------------------- margin engine
\* calculate_pnl: (raw_pnl, fee), or a panic.  An arithmetic overflow panics in a
\* build with overflow-checks and wraps in a build without.
price_delta(position, current_price) ==
    IF position.is_long
    THEN wrapping_sub_i64(as_i64(current_price), as_i64(position.entry_price))
    ELSE wrapping_sub_i64(as_i64(position.entry_price), as_i64(current_price))

fee_of(size) == wrapping_mul_u64(size, FEE_BPS) \div BPS

calculate_pnl(position, current_price) ==
    LET entry == as_i64(position.entry_price)
        cur == as_i64(current_price)
        delta == price_delta(position, current_price)
        scaled == wrapping_mul_i64(delta, BPS)
        overflow1 == \/ IF position.is_long THEN overflows_sub_i64(cur, entry)
                                            ELSE overflows_sub_i64(entry, cur)
                     \/ overflows_mul_i64(delta, BPS)
        panic1 == (overflow_checks /\ overflow1) \/ panics_div_i64(scaled, entry)
        pnl_percentage == IF panic1 THEN 0 ELSE div_i64(scaled, entry)
        product == wrapping_mul_i64(pnl_percentage, as_i64(position.size))
        overflow2 == overflows_mul_i64(pnl_percentage, as_i64(position.size))
        overflow3 == overflows_mul_u64(position.size, FEE_BPS)
        panic == panic1 \/ (overflow_checks /\ (overflow2 \/ overflow3))
    IN  [panic |-> panic,
         pnl |-> IF panic THEN 0 ELSE div_i64(product, BPS),
         fee |-> IF panic THEN 0 ELSE fee_of(position.size)]

\* close_position's return amount: [panic, amount]
return_amount(position, pnl, fee) ==
    IF pnl >= 0
    THEN LET sum == position.collateral + as_u64(pnl)
         IN  [panic |-> overflow_checks /\ (sum >= U64 \/ as_u64(sum) < fee),
              amount |-> as_u64(sum - fee)]
    ELSE LET c == as_i64(position.collateral)
             f == as_i64(fee)
             r1 == wrapping_add_i64(c, pnl)
             remaining == wrapping_sub_i64(r1, f)
         IN  [panic |-> overflow_checks
                          /\ (overflows_add_i64(c, pnl) \/ overflows_sub_i64(r1, f)),
              amount |-> IF remaining > 0 THEN as_u64(remaining) ELSE 0]

\* liquidate_position's equity percentage: [panic, value]
equity_percentage(position, pnl) ==
    LET c == as_i64(position.collateral)
        equity == wrapping_add_i64(c, pnl)
        scaled == wrapping_mul_i64(equity, PERCENT)
        panic == \/ overflow_checks
                    /\ (overflows_add_i64(c, pnl) \/ overflows_mul_i64(equity, PERCENT))
                 \/ panics_div_i64(scaled, c)
    IN  [panic |-> panic, value |-> IF panic THEN 0 ELSE div_i64(scaled, c)]

Liquidatable(eq, threshold) == eq <= threshold

\* liquidate_position's reward: [panic, amount]
liquidation_fee(collateral) ==
    [panic |-> overflow_checks /\ overflows_mul_u64(collateral, REWARD_PERCENT),
     amount |-> wrapping_mul_u64(collateral, REWARD_PERCENT) \div PERCENT]

\* open_position's size: the u128 product cast to u64
position_size(collateral_amount, leverage) ==
    MulMod(collateral_amount, leverage, U64)

\* ------------------------------------------------- collateral transfers
\* token::transfer between a wallet and the vault (SPL Token: fails on an
\* insufficient source balance and on an overflowing destination balance)
transfer_skipped(s, from, amount) == Ok(s, NoEvent)
transfer_to_vault(s, from, amount) ==
    IF s.wallet[from] < amount THEN Err(s, "InsufficientFunds")
    ELSE IF s.vault + amount >= U64 THEN Err(s, "TokenOverflow")
    ELSE Ok([s EXCEPT !.wallet[from] = @ - amount, !.vault = @ + amount], NoEvent)

transfer_from_vault(s, to, amount) ==
    IF s.vault < amount THEN Err(s, "InsufficientFunds")
    ELSE IF s.wallet[to] + amount >= U64 THEN Err(s, "TokenOverflow")
    ELSE Ok([s EXCEPT !.vault = @ - amount, !.wallet[to] = @ + amount], NoEvent)

\* ------------------------------------------- position lifecycle controller
\* The position address is derived from (user, market_id, unix timestamp): `init`
\* fails while an account lives at that address
AddressInUse(s, user, clock) ==
    \E q \in PositionIds :
        /\ s.positions[q].status = "open"
        /\ s.positions[q].trader = user
        /\ s.positions[q].open_time = clock

\* `close = user` / `close = liquidator`: the Position account is destroyed
keep_account(s, pid, how) == s
close_every_account(s, pid, how) ==
    [s EXCEPT !.positions = [q \in PositionIds |->
        IF s.positions[q].status = "open" THEN Destroyed(how) ELSE s.positions[q]]]
close_account(s, pid, how) == [s EXCEPT !.positions[pid] = Destroyed(how)]

\* market.is_active, as open_position's account constraint and handler read it
AlwaysActive(m) == TRUE
IsActive(m) == m.is_active

\* open_position's leverage requirement
LeverageNoFloor(leverage, m) == leverage <= m.max_leverage
LeverageAccepted(leverage, m) == leverage >= 1 /\ leverage <= m.max_leverage

open_position_handler(s, user, pid, market_id, order, oracle_price, clock) ==
    LET m == s.market
        current_price == as_u64(oracle_price)
        paid == transfer_to_vault(s, user, order.collateral_amount)
        size == position_size(order.collateral_amount, order.leverage)
    IN  IF ~IsActive(m) THEN Err(s, "MarketInactive")
        ELSE IF ~LeverageAccepted(order.leverage, m) THEN Err(s, "InvalidLeverage")
        ELSE IF ~(order.collateral_amount >= m.min_collateral)
        THEN Err(s, "InsufficientCollateral")
        ELSE IF paid.err # "Ok" THEN paid
        ELSE Ok([paid.st EXCEPT !.positions[pid] =
                    [status |-> "open", trader |-> user, market_id |-> market_id,
                     collateral |-> order.collateral_amount, size |-> size,
                     is_long |-> order.is_long, entry_price |-> current_price,
                     leverage |-> order.leverage, open_time |-> clock,
                     collateral_mint |-> "mint", last_funding_index |-> 0]],
                [kind |-> "PositionOpened", position |-> pid, trader |-> user,
                 is_long |-> order.is_long,
                 collateral_amount |-> order.collateral_amount,
                 position_size |-> size, entry_price |-> current_price,
                 leverage |-> order.leverage])

open_position(s, user, token_owner, price_feed, pid, market_id, order, oracle_price, clock) ==
    IF ~s.market.initialized \/ s.market.market_id # market_id
    THEN Err(s, "AccountNotInitialized")
    ELSE IF AddressInUse(s, user, clock) THEN Err(s, "AccountInUse")
    ELSE IF ~IsActive(s.market) THEN Err(s, "MarketInactive")
    ELSE IF token_owner # user THEN Err(s, "InvalidTokenAccount")
    ELSE IF s.market.oracle # price_feed THEN Err(s, "InvalidOracle")
    ELSE Instruction(s, open_position_handler(s, user, pid, market_id, order,
                                              oracle_price, clock))

close_position_handler(s, user, pid, oracle_price) ==
    LET position == s.positions[pid]
        current_price == as_u64(oracle_price)
        pf == calculate_pnl(position, current_price)
        ret == return_amount(position, pf.pnl, pf.fee)
        paid == IF ret.amount > 0 THEN transfer_from_vault(s, user, ret.amount)
                ELSE Ok(s, NoEvent)
    IN  IF ~(position.size > 0) THEN Err(s, "InvalidPosition")
        ELSE IF pf.panic \/ ret.panic THEN Err(s, "Panic")
        ELSE IF paid.err # "Ok" THEN paid
        ELSE Ok(close_account(paid.st, pid, "closed"),
                [kind |-> "PositionClosed", position |-> pid,
                 trader |-> position.trader, close_price |-> current_price,
                 pnl |-> pf.pnl, fee |-> pf.fee])

\* The ClosePosition account constraint on the signer
TraderUnchecked(position, user) == TRUE
TraderConstraint(position, user) == position.trader = user

close_position(s, user, token_owner, price_feed, pid, oracle_price) ==
    IF s.positions[pid].status # "open" THEN Err(s, "AccountNotInitialized")
    ELSE IF ~TraderConstraint(s.positions[pid], user) THEN Err(s, "Unauthorized")
    ELSE IF token_owner # user THEN Err(s, "InvalidTokenAccount")
    ELSE IF s.market.oracle # price_feed THEN Err(s, "InvalidOracle")
    ELSE Instruction(s, close_position_handler(s, user, pid, oracle_price))

\* The owner of the token account the reward is sent to: liquidator_token_account
reward_to_trader(liquidator, position) == position.trader
reward_recipient(liquidator, position) == liquidator

liquidate_position_handler(s, liquidator, pid, oracle_price) ==
    LET position == s.positions[pid]
        current_price == as_u64(oracle_price)
        pf == calculate_pnl(position, current_price)
        eq == equity_percentage(position, pf.pnl)
        reward == liquidation_fee(position.collateral)
        paid == IF reward.amount > 0
                THEN transfer_from_vault(s, reward_recipient(liquidator, position),
                                         reward.amount)
                ELSE Ok(s, NoEvent)
    IN  IF ~(position.size > 0) THEN Err(s, "InvalidPosition")
        ELSE IF pf.panic \/ eq.panic THEN Err(s, "Panic")
        ELSE IF ~Liquidatable(eq.value, s.market.liquidation_threshold)
        THEN Err(s, "CannotLiquidateYet")
        ELSE IF reward.panic THEN Err(s, "Panic")
        ELSE IF paid.err # "Ok" THEN paid
        ELSE Ok(close_account(paid.st, pid, "liquidated"),
                [kind |-> "PositionLiquidated", position |-> pid,
                 trader |-> position.trader, liquidator |-> liquidator,
                 liquidation_price |-> current_price, fee |-> reward.amount])

liquidate_position(s, liquidator, trader_ref, token_owner, price_feed, pid, oracle_price) ==
    IF s.positions[pid].status # "open" THEN Err(s, "AccountNotInitialized")
    ELSE IF s.positions[pid].trader # trader_ref THEN Err(s, "InvalidPosition")
    ELSE IF token_owner # liquidator THEN Err(s, "InvalidTokenAccount")
    ELSE IF s.market.oracle # price_feed THEN Err(s, "InvalidOracle")
    ELSE Instruction(s, liquidate_position_handler(s, liquidator, pid, oracle_price))

\* ------------------------------------------------------ specification
TypeOK ==
    /\ overflow_checks \in BOOLEAN
    /\ market.initialized \in BOOLEAN
    /\ vault \in 0 .. U64 - 1
    /\ \A k \in Keys : wallet[k] \in 0 .. U64 - 1
    /\ price \in env.prices
    /\ now \in Times

Start(name) ==
    /\ scope = name
    /\ overflow_checks \in BOOLEAN
    /\ market = NoMarket
    /\ positions = [p \in PositionIds |-> NoPosition]
    /\ vault = 0
    /\ wallet = InitialWallet
    /\ price \in env.prices
    /\ now = 0
    /\ history = [p \in PositionIds |->
                     [closed |-> 0, liquidated |-> 0, overpaid |-> FALSE]]

Init == Start("main")

InitPool == Start("pool")

\* The accounts an instruction leaves
Apply(r) ==
    /\ market' = r.st.market
    /\ positions' = r.st.positions
    /\ vault' = r.st.vault
    /\ wallet' = r.st.wallet
    /\ UNCHANGED <<scope, overflow_checks, price, now>>

\* history counts, per position, the close_position and the liquidate_position
\* instructions that returned Ok, and tells whether its close paid the trader more
\* than the position's collateral
Record(r, pid, how) ==
    history' = IF r.err # "Ok" THEN history
               ELSE IF how = "closed"
               THEN [history EXCEPT
                        ![pid].closed = @ + 1,
                        ![pid].overpaid = vault - r.st.vault > positions[pid].collateral]
               ELSE [history EXCEPT ![pid].liquidated = @ + 1]

\* The next position created gets the first identifier never used
FreshIds == {p \in env.ids : positions[p].status = "none"}
NextId == CHOOSE p \in FreshIds : \A q \in FreshIds : p <= q

InitializeMarket ==
    \E admin \in Admins, feed \in Oracles, id \in MarketIds, p \in env.params :
        /\ Apply(initialize_market(St, admin, feed, id, p))
        /\ UNCHANGED history

UpdateMarket ==
    \E admin \in Keys, a \in env.updates :
        /\ Apply(update_market(St, admin, a))
        /\ UNCHANGED history

UpdateFunding ==
    \E admin \in Keys, i \in FundingIndexes :
        /\ Apply(update_funding(St, admin, i, now))
        /\ UNCHANGED history

OpenPosition ==
    /\ FreshIds # {}
    /\ \E user \in Keys, feed \in PriceFeeds, id \in MarketIds, o \in env.orders :
        \E owner \in TokenOwners(user) :
            /\ Apply(open_position(St, user, owner, feed, NextId, id, o, price, now))
            /\ UNCHANGED history

ClosePosition ==
    \E user \in Keys, feed \in PriceFeeds, pid \in env.ids :
        \E owner \in TokenOwners(user) :
            LET r == close_position(St, user, owner, feed, pid, price)
            IN  Apply(r) /\ Record(r, pid, "closed")

LiquidatePosition ==
    \E liquidator \in Keys, trader \in Keys, feed \in PriceFeeds, pid \in env.ids :
        \E owner \in TokenOwners(liquidator) :
            LET r == liquidate_position(St, liquidator, trader, owner, feed, pid, price)
            IN  Apply(r) /\ Record(r, pid, "liquidated")

\* The oracle publishes a new price
OraclePrice ==
    /\ \E p \in env.prices : p # price /\ price' = p
    /\ UNCHANGED <<scope, overflow_checks, market, positions, vault, wallet, now, history>>

\* The cluster clock advances
Tick ==
    /\ now < MaxTime
    /\ now' = now + 1
    /\ UNCHANGED <<scope, overflow_checks, market, positions, vault, wallet, price, history>>

Next ==
    \/ InitializeMarket
    \/ UpdateMarket
    \/ UpdateFunding
    \/ OpenPosition
    \/ ClosePosition
    \/ LiquidatePosition
    \/ OraclePrice
    \/ Tick

Spec == Init /\ [][Next]_vars

SpecPool == InitPool /\ [][Next]_vars

\* ------------------------------------------------------------- claims
\* The calls of one instruction whose accounts pass Anchor's validation
Unused == {q \in PositionIds : positions[q].status = "none"}
OpenPositions == {q \in PositionIds : positions[q].status = "open"}
Ended(p) == history[p].closed + history[p].liquidated

\* <<q, r>> with x * k = q * c + r and 0 <= r < c, for x >= 0, k >= 0 and c > 0,
\* within TLC's integers
RECURSIVE MulDivMod(_, _, _)
MulDivMod(x, k, c) ==
    IF k = 0 THEN <<0, 0>>
    ELSE LET h == MulDivMod(x, k \div 2, c)
             r == 2 * h[2] + (k % 2) * (x % c)
         IN  <<2 * h[1] + (k % 2) * (x \div c) + (r \div c), r % c>>

Percent(x, c) == MulDivMod(x, 100, c)[1]

\* (collateral + pnl) * 100 / collateral, truncated toward zero, in the integers
ClaimedEquity(collateral, pnl) ==
    IF collateral + pnl >= 0 THEN Percent(collateral + pnl, collateral)
    ELSE -Percent(-(collateral + pnl), collateral)

Max(a, b) == IF a >= b THEN a ELSE b

\* C1: a position goes none -> Open -> Closed or Liquidated and both end states are
\* final: of all the close_position and liquidate_position instructions on one
\* position at most one ever succeeds, the account is gone once one did, and from
\* then on every close_position and every liquidate_position on it fails, whoever
\* calls it.
C1_LifecycleTerminal ==
    \A p \in PositionIds :
        /\ Ended(p) <= 1
        /\ positions[p].status = "closed" <=> history[p].closed = 1
        /\ positions[p].status = "liquidated" <=> history[p].liquidated = 1
        /\ Ended(p) = 1 =>
            /\ \A user \in Keys, owner \in Keys, feed \in Feeds :
                   close_position(St, user, owner, feed, p, price).err # "Ok"
            /\ \A liquidator \in Keys, trader \in Keys, owner \in Keys, feed \in Feeds :
                   liquidate_position(St, liquidator, trader, owner, feed, p, price).err
                       # "Ok"

\* One position was closed by its trader and another one was liquidated
C1_Witness ==
    \E p \in PositionIds, q \in PositionIds :
        history[p].closed = 1 /\ history[q].liquidated = 1

\* C2: every close_position that succeeds pays the trader, from the vault,
\* collateral + pnl - fee when pnl >= 0 and max(0, collateral + pnl - fee) when
\* pnl < 0 (pnl and fee as calculate_pnl returns them), for every position
\* open_position can create and every oracle price.
C2_CloseSettlement ==
    \A p \in OpenPositions :
        LET position == positions[p]
            user == position.trader
            r == close_position(St, user, user, market.oracle, p, price)
            pf == calculate_pnl(position, as_u64(price))
            due == IF pf.pnl >= 0 THEN position.collateral + pf.pnl - pf.fee
                   ELSE Max(0, position.collateral + pf.pnl - pf.fee)
        IN  r.err = "Ok" =>
                /\ due >= 0
                /\ r.st.vault = vault - due
                /\ r.st.wallet = [wallet EXCEPT ![user] = @ + due]

\* C3: for an open position with size > 0, liquidate_position fails with
\* CannotLiquidateYet when (collateral + pnl) * 100 / collateral exceeds the market's
\* liquidation_threshold at the price the call reads, and succeeds otherwise.
C3_LiquidationDecision ==
    \A p \in OpenPositions, liquidator \in Keys :
        LET position == positions[p]
            r == liquidate_position(St, liquidator, position.trader, liquidator,
                                    market.oracle, p, price)
            pf == calculate_pnl(position, as_u64(price))
        IN  position.size > 0 =>
                /\ ~pf.panic
                /\ r.err = IF ClaimedEquity(position.collateral, pf.pnl)
                                  > market.liquidation_threshold
                           THEN "CannotLiquidateYet" ELSE "Ok"

\* C4: every liquidate_position that succeeds pays the liquidator exactly
\* collateral * 3 / 100 from the vault and makes no other payment: the rest of the
\* collateral stays in the vault.
C4_LiquidationReward ==
    \A p \in OpenPositions, liquidator \in Keys :
        LET position == positions[p]
            r == liquidate_position(St, liquidator, position.trader, liquidator,
                                    market.oracle, p, price)
            reward == (position.collateral * 3) \div 100
        IN  r.err = "Ok" =>
                /\ r.st.vault = vault - reward
                /\ r.st.wallet = [wallet EXCEPT ![liquidator] = @ + reward]

\* C5: open_position fails whenever leverage > market.max_leverage, leverage < 1,
\* collateral_amount < market.min_collateral or the market is not active, judged on
\* the market as it is when the call is made; no Position is created and no
\* collateral moves.  The error is MarketInactive, InvalidLeverage or
\* InsufficientCollateral whenever the call's other accounts pass validation.
C5_OpenRejected ==
    \A user \in Keys, owner \in Keys, feed \in Feeds, id \in MarketIds,
       o \in env.orders, pid \in Unused :
        LET r == open_position(St, user, owner, feed, pid, id, o, price, now)
        IN  (/\ market.initialized
             /\ \/ o.leverage > market.max_leverage
                \/ o.leverage < 1
                \/ o.collateral_amount < market.min_collateral
                \/ ~market.is_active) =>
                /\ r.err # "Ok"
                /\ r.st = St
                /\ r.event = NoEvent
                /\ (owner = user /\ feed = market.oracle /\ ~AddressInUse(St, user, now)) =>
                       r.err = IF ~market.is_active THEN "MarketInactive"
                               ELSE IF o.leverage < 1 \/ o.leverage > market.max_leverage
                               THEN "InvalidLeverage"
                               ELSE "InsufficientCollateral"

\* A position with leverage 5 is open in a market whose max_leverage was lowered
\* to 4 since: the same order is now rejected
C5_Witness ==
    /\ \E p \in OpenPositions : positions[p].leverage > market.max_leverage
    /\ market.is_active
    /\ \E user \in Keys, pid \in Unused :
           open_position(St, user, user, market.oracle, pid, market.market_id,
                         Order(TRUE, 1000, 5), price, now).err = "InvalidLeverage"

\* C6: every position open_position creates has size = collateral * leverage
\* exactly, and keeps it.
C6_SizeExact ==
    \A p \in OpenPositions :
        positions[p].size = positions[p].collateral * positions[p].leverage

\* C7: closing a position while the oracle still returns its entry price succeeds
\* with pnl = 0 and pays the trader exactly collateral - fee, fee = size * 10 / 10000.
C7_RoundTrip ==
    \A p \in OpenPositions :
        LET position == positions[p]
            user == position.trader
            r == close_position(St, user, user, market.oracle, p, price)
            fee == MulDivMod(position.size, 10, 10000)[1]
        IN  as_u64(price) = position.entry_price =>
                /\ r.err = "Ok"
                /\ r.event.pnl = 0
                /\ r.st.vault = vault - (position.collateral - fee)
                /\ r.st.wallet = [wallet EXCEPT ![user] = @ + (position.collateral - fee)]

\* C8: every existing Market has 1 <= max_leverage and
\* 0 < liquidation_threshold < 100 (and min_collateral >= 0).
C8_MarketInvariant ==
    market.initialized =>
        /\ 1 <= market.max_leverage
        /\ 0 < market.liquidation_threshold
        /\ market.liquidation_threshold < 100
        /\ market.min_collateral >= 0

\* C9: every open Position has size > 0.
C9_OpenSizePositive ==
    \A p \in OpenPositions : positions[p].size > 0

\* C10: update_market and update_funding succeed only when the caller is
\* market.admin; called by anyone else they fail with Unauthorized and change
\* nothing; no instruction changes the admin of an existing market.
C10_AdminOnly ==
    [][market.initialized =>
          /\ market'.initialized /\ market'.admin = market.admin
          /\ \A k \in Keys \ {market.admin} :
                /\ \A a \in env.updates :
                       update_market(St, k, a) = Err(St, "Unauthorized")
                /\ \A i \in FundingIndexes :
                       update_funding(St, k, i, now) = Err(St, "Unauthorized")]_vars

\* The admin has published a funding index and changed the market, and a caller
\* who is not the admin is refused
C10_Witness ==
    /\ market.initialized
    /\ market.last_funding_index = 7
    /\ ~market.is_active
    /\ \E k \in Keys \ {market.admin} :
           update_funding(St, k, 7, now).err = "Unauthorized"

\* C11: close_position succeeds only for the position's trader: called by anyone
\* else it fails with Unauthorized, the position stays open and unchanged and
\* nothing leaves the vault; what a successful close pays goes to the trader.
C11_TraderOnly ==
    \A p \in OpenPositions, user \in Keys, owner \in Keys, feed \in Feeds :
        LET r == close_position(St, user, owner, feed, p, price)
            trader == positions[p].trader
        IN  /\ user # trader => r = Err(St, "Unauthorized")
            /\ r.err = "Ok" =>
                /\ user = trader
                /\ \A k \in Keys \ {trader} : r.st.wallet[k] = wallet[k]
                /\ r.st.wallet[trader] - wallet[trader] = vault - r.st.vault

\* One position was closed by its trader, and another caller is refused on a
\* position that is still open
C11_Witness ==
    \E p \in PositionIds, q \in OpenPositions :
        /\ history[p].closed = 1
        /\ \E user \in Keys \ {positions[q].trader} :
               close_position(St, user, user, market.oracle, q, price).err = "Unauthorized"

\* r is a result that, when an error, keeps nothing: no account changed, no event
Atomic(r) == r.err # "Ok" => r.st = St /\ r.event = NoEvent

SameOutcome(r1, r2) ==
    /\ r1.err = r2.err
    /\ r1.event = r2.event
    /\ r1.st.positions = r2.st.positions
    /\ r1.st.vault = r2.st.vault
    /\ r1.st.wallet = r2.st.wallet

\* C13: while market.is_active is false no open_position on the market succeeds,
\* and close_position and liquidate_position on the positions opened earlier do
\* exactly what they would do on an active market.
C13_InactiveGate ==
    /\ (market.initialized /\ ~market.is_active) =>
           \A user \in Keys, owner \in Keys, feed \in Feeds, id \in MarketIds,
              o \in env.orders, pid \in FreshIds :
               open_position(St, user, owner, feed, pid, id, o, price, now).err # "Ok"
    /\ \A p \in OpenPositions :
           LET other == [St EXCEPT !.market.is_active = ~@]
           IN  /\ \A user \in Keys, owner \in Keys, feed \in Feeds :
                      SameOutcome(close_position(St, user, owner, feed, p, price),
                                  close_position(other, user, owner, feed, p, price))
               /\ \A liquidator \in Keys, trader \in Keys, owner \in Keys, feed \in Feeds :
                      SameOutcome(
                          liquidate_position(St, liquidator, trader, owner, feed, p, price),
                          liquidate_position(other, liquidator, trader, owner, feed, p, price))

\* The market was deactivated while a position was open: an order the market
\* accepted before is refused, and the position can still be closed
C13_Witness ==
    /\ market.initialized
    /\ ~market.is_active
    /\ \E p \in OpenPositions :
           /\ close_position(St, positions[p].trader, positions[p].trader,
                             market.oracle, p, price).err = "Ok"
           /\ \A pid \in FreshIds :
                  open_position(St, "k2", "k2", market.oracle, pid, market.market_id,
                                Order(TRUE, 1000, 5), price, now).err = "MarketInactive"

\* C14: what liquidate_position does on a position at a price (success or
\* CannotLiquidateYet, and the reward) does not depend on who calls it: the trader
\* of the position, the market admin and anyone else get the same outcome, and the
\* reward is paid to the caller.
C14_AnyLiquidator ==
    \A p \in OpenPositions :
        LET trader == positions[p].trader
            own == liquidate_position(St, trader, trader, trader, market.oracle, p, price)
        IN  \A l \in Keys :
                LET r == liquidate_position(St, l, trader, l, market.oracle, p, price)
                IN  /\ r.err = own.err
                    /\ r.err = "Ok" =>
                        /\ r.event.fee = own.event.fee
                        /\ r.event.liquidator = l
                        /\ r.st.vault = vault - r.event.fee
                        /\ r.st.wallet = [wallet EXCEPT ![l] = @ + r.event.fee]
                        /\ r.st.positions = own.st.positions

\* A position was liquidated, and another one can be liquidated now, for a
\* reward, by its own trader as well as by anyone else
C14_Witness ==
    \E q \in PositionIds, p \in OpenPositions :
        /\ history[q].liquidated = 1
        /\ \A l \in Keys :
               LET r == liquidate_position(St, l, positions[p].trader, l, market.oracle,
                                           p, price)
               IN  r.err = "Ok" /\ r.event.fee > 0

\* x * k / c truncated toward zero, in the integers, for c > 0 and k >= 0
SignedMulDiv(x, k, c) ==
    IF x >= 0 THEN MulDivMod(x, k, c)[1] ELSE -MulDivMod(-x, k, c)[1]

\* (((delta * 10000) / entry_price) * size) / 10000 in the integers, every division
\* truncating toward zero
ClaimedPnl(position, current_price) ==
    LET delta == IF position.is_long THEN current_price - position.entry_price
                 ELSE position.entry_price - current_price
        pnl_percentage == SignedMulDiv(delta, 10000, position.entry_price)
    IN  SignedMulDiv(pnl_percentage, position.size, 10000)

\* C15: for a position whose entry_price is not 0, calculate_pnl returns
\* pnl = (((delta * 10000) / entry_price) * size) / 10000, divisions truncating toward
\* zero, delta = price - entry_price for a long and entry_price - price for a short,
\* and fee = size * 10 / 10000; so pnl >= 0 when the price moved in the position's
\* favour and pnl <= 0 when it moved against it.
C15_PnlFormula ==
    \A p \in OpenPositions :
        LET position == positions[p]
            current_price == as_u64(price)
            pf == calculate_pnl(position, current_price)
            favour == IF position.is_long THEN current_price >= position.entry_price
                      ELSE current_price <= position.entry_price
        IN  position.entry_price # 0 =>
                /\ ~pf.panic
                /\ pf.pnl = ClaimedPnl(position, current_price)
                /\ pf.fee = MulDivMod(position.size, 10, 10000)[1]
                /\ favour => pf.pnl >= 0
                /\ ~favour => pf.pnl <= 0

\* C16: every position open_position creates has entry_price # 0, whatever the
\* oracle returns when it is opened.
C16_EntryPriceNonZero ==
    \A p \in OpenPositions : positions[p].entry_price # 0

\* C20: two positions with the same entry_price and size that differ only in
\* is_long get, at any one price, the same fee and pnl values that are exact
\* negations of each other.
C20_LongShortSymmetry ==
    \A p \in OpenPositions :
        LET position == positions[p]
            mirror == [position EXCEPT !.is_long = ~@]
            a == calculate_pnl(position, as_u64(price))
            b == calculate_pnl(mirror, as_u64(price))
        IN  /\ a.panic = b.panic
            /\ ~a.panic => a.fee = b.fee /\ a.pnl = -b.pnl

\* C17: from its creation to its destruction no operation changes a field of an
\* open Position: a step either leaves it as it is or is the close_position or
\* liquidate_position that ends it; update_market and update_funding, whatever
\* their arguments, do not touch it, and a max_leverage lowered below the
\* position's leverage changes nothing to how it is closed or liquidated.
C17_PositionFrame ==
    /\ [][\A p \in OpenPositions :
             \/ positions'[p] = positions[p]
             \/ /\ history'[p] # history[p]
                /\ positions'[p] \in {Destroyed("closed"), Destroyed("liquidated")}]_vars
    /\ [](\A p \in OpenPositions :
             /\ \A admin \in Keys :
                   /\ \A a \in MainEnv.updates :
                          update_market(St, admin, a).st.positions = positions
                   /\ \A i \in FundingIndexes :
                          update_funding(St, admin, i, now).st.positions = positions
             /\ LET lowered == [St EXCEPT
                                   !.market.max_leverage = positions[p].leverage - 1]
                IN  /\ \A user \in Keys :
                           SameOutcome(
                               close_position(St, user, user, market.oracle, p, price),
                               close_position(lowered, user, user, market.oracle, p,
                                              price))
                    /\ \A l \in Keys, trader \in Keys :
                           SameOutcome(
                               liquidate_position(St, l, trader, l, market.oracle, p,
                                                  price),
                               liquidate_position(lowered, l, trader, l, market.oracle,
                                                  p, price)))

\* A position opened at time 0 is still open after the clock advanced, the admin
\* published a funding index and deactivated the market, and another position ended
C17_Witness ==
    \E p \in OpenPositions, q \in PositionIds :
        /\ Ended(q) = 1
        /\ positions[p].open_time = 0
        /\ now = 1
        /\ market.last_funding_index = 7
        /\ ~market.is_active

\* The value of a Market field after an update that may supply it
Supplied(o, old) == IF IsSome(o) THEN Unwrap(o) ELSE old

\* C18: a successful update_market changes exactly the fields supplied and leaves
\* the fields not supplied, admin, oracle, market_id, last_funding_index and
\* last_funding_time as they were; a successful update_funding changes only
\* last_funding_index and last_funding_time; open_position, close_position and
\* liquidate_position never change a Market field.
C18_MarketFrame ==
    /\ \A admin \in Keys, a \in env.updates :
           LET r == update_market(St, admin, a)
           IN  r.err = "Ok" =>
                   r.st = [St EXCEPT !.market =
                       [market EXCEPT
                           !.min_collateral = Supplied(a.min_collateral, @),
                           !.max_leverage = Supplied(a.max_leverage, @),
                           !.liquidation_threshold = Supplied(a.liquidation_threshold, @),
                           !.is_active = Supplied(a.is_active, @)]]
    /\ \A admin \in Keys, i \in FundingIndexes :
           LET r == update_funding(St, admin, i, now)
           IN  r.err = "Ok" =>
                   r.st = [St EXCEPT !.market.last_funding_index = i,
                                     !.market.last_funding_time = now]
    /\ \A user \in Keys, owner \in Keys, feed \in Feeds :
           /\ \A id \in MarketIds, o \in env.orders, pid \in FreshIds :
                  open_position(St, user, owner, feed, pid, id, o, price, now).st.market
                      = market
           /\ \A pid \in PositionIds :
                  /\ close_position(St, user, owner, feed, pid, price).st.market = market
                  /\ \A trader \in Keys :
                         liquidate_position(St, user, trader, owner, feed, pid,
                                            price).st.market = market

\* The admin lowered max_leverage to 4 and published a funding index at time 1:
\* min_collateral and liquidation_threshold are still those of initialize_market
C18_Witness ==
    /\ market.initialized
    /\ market.max_leverage = 4
    /\ market.min_collateral = 1000
    /\ market.liquidation_threshold = 20
    /\ market.last_funding_index = 7
    /\ market.last_funding_time = 1
    /\ OpenPositions # {}

\* The collateral of the positions that are open
RECURSIVE CollateralOf(_)
CollateralOf(S) ==
    IF S = {} THEN 0
    ELSE LET p == CHOOSE q \in S : TRUE
         IN  positions[p].collateral + CollateralOf(S \ {p})

\* C19: as long as no close_position has paid a settlement larger than its
\* position's collateral, the vault holds at least the collateral of all the
\* positions still open; a liquidation never takes more from the vault than the
\* liquidated position deposited.
C19_VaultCoversCollateral ==
    /\ (\A p \in PositionIds : ~history[p].overpaid) =>
           vault >= CollateralOf(OpenPositions)
    /\ \A p \in OpenPositions, l \in Keys :
           LET r == liquidate_position(St, l, positions[p].trader, l, market.oracle, p,
                                       price)
           IN  r.err = "Ok" => vault - r.st.vault <= positions[p].collateral

\* A position is open after another one ended without a profit paid out: the
\* vault holds more than the open position's collateral
C19_Witness ==
    /\ \A p \in PositionIds : ~history[p].overpaid
    /\ \E p \in OpenPositions, q \in PositionIds :
           Ended(q) = 1 /\ vault > positions[p].collateral

====
